---------------------------- MODULE Spec2Model ----------------------------
(***************************************************************************)
(* The M3U playlist processor of src/code.py: parse_m3u,                   *)
(* filter_and_categorize_channels, the sort of main and                    *)
(* generate_m3u_output, run as the pipeline of main.                       *)
(*                                                                         *)
(* Text is a sequence of one-character strings, so that the string and     *)
(* regular-expression operations of the program are computed character by  *)
(* character.  A channel (a Python dict, which keeps insertion order) is a *)
(* sequence of <<key, value>> pairs.                                       *)
(***************************************************************************)
EXTENDS Integers, Sequences, FiniteSets, TLC

VARIABLES
    pc,                      \* position in main: main, failed, parse, filter, sort, generate, written
    run,                     \* 1: first invocation, 2: invocation on the file it wrote
    source,                  \* the text fetched by the first invocation
    content,                 \* parse_m3u: the text being parsed
    lines,                   \* parse_m3u: content.splitlines()
    i,                       \* parse_m3u: loop index (0-based, as in the code)
    channels,                \* parse_m3u: the list being built, then the filter's input
    j,                       \* filter: number of channels already visited
    filtered_channels,       \* filter: the list being built, then sorted in place
    output,                  \* the text written by generate_m3u_output
    prev,                    \* the list the first invocation handed to the serializer
    category_map,            \* main: ordered <<category name, keywords>> pairs
    vod_blacklist_keywords,  \* main: sequence of keywords
    desired_keywords         \* main: set of lower-cased keywords

vars == <<pc, run, source, content, lines, i, channels, j, filtered_channels,
          output, prev, category_map, vod_blacklist_keywords, desired_keywords>>

-----------------------------------------------------------------------------
(* Characters.  AsciiLow[k] is the character with code point 31 + k and    *)
(* AsciiHigh[k] the one with code point 96 + k.                            *)

AsciiLow == <<
    " ", "!", "\"", "#", "$", "%", "&", "'", "(", ")", "*", "+", ",", "-", ".", "/",
    "0", "1", "2", "3", "4", "5", "6", "7", "8", "9", ":", ";", "<", "=", ">", "?",
    "@", "A", "B", "C", "D", "E", "F", "G", "H", "I", "J", "K", "L", "M", "N", "O",
    "P", "Q", "R", "S", "T", "U", "V", "W", "X", "Y", "Z", "[", "\\", "]", "^", "_" >>

AsciiHigh == <<
    "a", "b", "c", "d", "e", "f", "g", "h", "i", "j", "k", "l", "m", "n", "o", "p",
    "q", "r", "s", "t", "u", "v", "w", "x", "y", "z", "{", "|", "}", "~" >>

\* the characters outside these tables that the program's texts use
Extra == << <<"\t", 9>>, <<"\n", 10>>, <<"º", 186>>, <<"Ã", 195>>, <<"ã", 227>> >>

Chars == {AsciiLow[k] : k \in 1..Len(AsciiLow)} \cup {AsciiHigh[k] : k \in 1..Len(AsciiHigh)}
         \cup {Extra[k][1] : k \in 1..Len(Extra)}

\* code point of a character: the order Python compares strings by
Ord == [c \in Chars |->
          IF \E k \in 1..Len(Extra) : Extra[k][1] = c
          THEN Extra[CHOOSE k \in 1..Len(Extra) : Extra[k][1] = c][2]
          ELSE IF \E k \in 1..Len(AsciiLow) : AsciiLow[k] = c
          THEN 31 + (CHOOSE k \in 1..Len(AsciiLow) : AsciiLow[k] = c)
          ELSE 96 + (CHOOSE k \in 1..Len(AsciiHigh) : AsciiHigh[k] = c)]

Chr(n) == CHOOSE c \in Chars : Ord[c] = n

\* \w of a Python str pattern: alphanumeric or underscore
IsWord(c) ==
    LET o == Ord[c]
    IN  o \in (48..57) \cup (65..90) \cup (97..122) \cup {95, 186, 195, 227}

\* whitespace as str.strip() and \s see it
IsSpace(c) == c \in {" ", "\t", "\n"}

\* str.lower() on one character
LowerChar == [c \in Chars |->
                IF Ord[c] \in 65..90 THEN Chr(Ord[c] + 32)
                ELSE IF c = "Ã" THEN "ã" ELSE c]

-----------------------------------------------------------------------------
(* String operations of the Python library, as the program uses them.      *)

Lower(s) == [k \in 1..Len(s) |-> LowerChar[s[k]]]

Strip(s) ==
    LET keep == {k \in 1..Len(s) : ~IsSpace(s[k])}
    IN  IF keep = {} THEN <<>>
        ELSE SubSeq(s, CHOOSE k \in keep : \A m \in keep : k <= m,
                       CHOOSE k \in keep : \A m \in keep : k >= m)

StartsWith(s, p) == Len(s) >= Len(p) /\ SubSeq(s, 1, Len(p)) = p

ReplaceChar(s, a, b) == [k \in 1..Len(s) |-> IF s[k] = a THEN b ELSE s[k]]

RECURSIVE SplitFrom(_, _)
SplitFrom(s, start) ==
    IF start > Len(s) THEN <<>>
    ELSE LET brk == {k \in start..Len(s) : s[k] = "\n"}
             nl  == IF brk = {} THEN Len(s) + 1
                    ELSE CHOOSE k \in brk : \A m \in brk : k <= m
         IN  <<SubSeq(s, start, nl - 1)>> \o SplitFrom(s, nl + 1)

\* str.splitlines(): no empty last line after a final line break
SplitLines(s) == SplitFrom(s, 1)

RECURSIVE Concat(_)
Concat(ss) == IF ss = <<>> THEN <<>> ELSE Head(ss) \o Concat(Tail(ss))

(* A dict: insertion-ordered <<key, value>> pairs.                         *)
Has(d, key) == \E k \in 1..Len(d) : d[k][1] = key

Get(d, key, default) ==
    IF Has(d, key) THEN d[CHOOSE k \in 1..Len(d) : d[k][1] = key][2] ELSE default

\* d[key] = value: an existing key keeps its position
Put(d, key, value) ==
    IF Has(d, key)
    THEN [k \in 1..Len(d) |-> IF d[k][1] = key THEN <<key, value>> ELSE d[k]]
    ELSE Append(d, <<key, value>>)

-----------------------------------------------------------------------------
(* Literals of the program.                                                *)

EXTINF == <<"#","E","X","T","I","N","F",":">>
KeyName == <<"n","a","m","e">>
KeyUrl == <<"u","r","l">>
KeyGroupTitle == <<"g","r","o","u","p","_","t","i","t","l","e">>
UnknownChannel == <<"U","n","k","n","o","w","n"," ","C","h","a","n","n","e","l">>
OtherLiveTV == <<"O","t","h","e","r"," ","L","i","v","e"," ","T","V">>
SortNoCategory == <<"Z","Z","Z","_","U","n","k","n","o","w","n","_","C","a","t","e","g","o","r","y">>
SortNoChannel == <<"Z","Z","Z","_","U","n","k","n","o","w","n","_","C","h","a","n","n","e","l">>
M3UHeader == <<"#","E","X","T","M","3","U">> \o <<"\n">>
ExtinfPrefix == <<"#","E","X","T","I","N","F",":","-","1">>

\* the attribute keys generate_m3u_output writes
RecognizedKeys == << <<"t","v","g","_","i","d">>, <<"t","v","g","_","n","a","m","e">>, <<"t","v","g","_","l","o","g","o">>, <<"g","r","o","u","p","_","t","i","t","l","e">>, <<"t","v","g","_","u","r","l">>, <<"t","v","g","_","r","e","c">> >>

-----------------------------------------------------------------------------
(* parse_m3u                                                                *)

\* the key lengths with which (\S+?)="([^"]*)" matches at position p
AttrKeyLens(s, p) ==
    {k \in 1..(Len(s) - p + 1) :
        /\ \A t \in p..(p + k - 1) : ~IsSpace(s[t])
        /\ p + k + 1 <= Len(s)
        /\ s[p + k] = "="
        /\ s[p + k + 1] = "\""
        /\ \E e \in (p + k + 2)..Len(s) : s[e] = "\""}

\* re.findall(r'(\S+?)="([^"]*)"', s) from position p on
RECURSIVE FindAttrs(_, _)
FindAttrs(s, p) ==
    IF p > Len(s) THEN <<>>
    ELSE IF AttrKeyLens(s, p) = {} THEN FindAttrs(s, p + 1)
    ELSE LET ks == AttrKeyLens(s, p)
             k  == CHOOSE m \in ks : \A n \in ks : m <= n
             qs == {e \in (p + k + 2)..Len(s) : s[e] = "\""}
             e  == CHOOSE m \in qs : \A n \in qs : m <= n
         IN  << <<SubSeq(s, p, p + k - 1), SubSeq(s, p + k + 2, e - 1)>> >>
             \o FindAttrs(s, e + 1)

\* the loop storing the attributes under keys with underscores
RECURSIVE StoreAttrs(_, _)
StoreAttrs(info, attrs) ==
    IF attrs = <<>> THEN info
    ELSE StoreAttrs(Put(info, ReplaceChar(attrs[1][1], "-", "_"), attrs[1][2]),
                    Tail(attrs))

\* re.search(r',(.+)$', line): the leftmost comma with a character after it
ChannelName(line) ==
    LET cs == {c \in 1..(Len(line) - 1) : line[c] = ","}
    IN  IF cs = {} THEN UnknownChannel
        ELSE Strip(SubSeq(line, 1 + (CHOOSE c \in cs : \A m \in cs : c <= m),
                          Len(line)))

\* channel_info built from a metadata line (already stripped)
ChannelInfo(line) ==
    Put(StoreAttrs(<<>>, FindAttrs(line, 1)), KeyName, ChannelName(line))

\* lines[i] (0-based) of the code
LineAt(k) == lines[k + 1]

IsExtinf(k) == StartsWith(Strip(LineAt(k)), EXTINF)

\* the test for a URL line after lines[k]
HasUrlLine(ls, k) == k + 1 < Len(ls) /\ ~StartsWith(Strip(ls[k + 2]), <<"#">>)

\* a parser that also skips the line after an entry without a URL line
AfterMissingUrlSkipping(k) == k + 2

\* the index after an entry without a URL line
AfterMissingUrl(k) == k + 1

-----------------------------------------------------------------------------
(* filter_and_categorize_channels                                          *)

\* \b at the position between text[q] and text[q + 1]
WordBoundary(text, q) ==
    (q >= 1 /\ IsWord(text[q])) # (q < Len(text) /\ IsWord(text[q + 1]))

\* re.search(r'\b' + re.escape(keyword) + r'\b', text)
Search(keyword, text) ==
    \E p \in 0..(Len(text) - Len(keyword)) :
        /\ SubSeq(text, p + 1, p + Len(keyword)) = keyword
        /\ WordBoundary(text, p)
        /\ WordBoundary(text, p + Len(keyword))

\* the test made of every lower-cased keyword: the name or the group-title
KeywordFound(keyword, channel) ==
    \/ Search(keyword, Lower(Get(channel, KeyName, <<>>)))
    \/ Search(keyword, Lower(Get(channel, KeyGroupTitle, <<>>)))

\* a blacklist test that looks at the name only
IsVodByName(channel, blacklist) ==
    \E k \in 1..Len(blacklist) :
        Search(Lower(blacklist[k]), Lower(Get(channel, KeyName, <<>>)))

\* step 1: is_vod
IsVod(channel, blacklist) ==
    \E k \in 1..Len(blacklist) : KeywordFound(Lower(blacklist[k]), channel)

\* step 2: is_desired_live_tv
IsDesiredLiveTv(channel, desired) ==
    \E kw \in desired : KeywordFound(Lower(kw), channel)

\* the categories with a keyword found, as indexes into the mapping
MatchingCategories(channel, cmap) ==
    {c \in 1..Len(cmap) :
        \E k \in 1..Len(cmap[c][2]) : KeywordFound(Lower(cmap[c][2][k]), channel)}

\* a categorization in which the last matching category wins
LastCategoryIndex(hits) == CHOOSE c \in hits : \A d \in hits : c >= d

\* the category the loops over category_map.items() stop at
CategoryIndex(hits) == CHOOSE c \in hits : \A d \in hits : c <= d

\* assigned_category
AssignedCategory(channel, cmap) ==
    LET hits == MatchingCategories(channel, cmap)
    IN  IF hits = {} THEN OtherLiveTV ELSE cmap[CategoryIndex(hits)][1]

-----------------------------------------------------------------------------
(* the sort of main                                                        *)

\* Python's < on str: by code point, a proper prefix first
RECURSIVE StrLess(_, _)
StrLess(a, b) ==
    IF b = <<>> THEN FALSE
    ELSE IF a = <<>> THEN TRUE
    ELSE IF Ord[a[1]] # Ord[b[1]] THEN Ord[a[1]] < Ord[b[1]]
    ELSE StrLess(Tail(a), Tail(b))

\* the key of the lambda
SortKey(x) == <<Get(x, KeyGroupTitle, SortNoCategory), Get(x, KeyName, SortNoChannel)>>

\* a comparison with the name as the primary key
KeyLessNameFirst(a, b) == StrLess(a[2], b[2]) \/ (a[2] = b[2] /\ StrLess(a[1], b[1]))

\* Python's < on the key tuples
KeyLess(a, b) == StrLess(a[1], b[1]) \/ (a[1] = b[1] /\ StrLess(a[2], b[2]))

\* list.sort is stable: x goes after every element that is not greater
InsertSorted(sorted, x) ==
    LET after == {k \in 1..Len(sorted) : ~KeyLess(SortKey(x), SortKey(sorted[k]))}
        n     == IF after = {} THEN 0 ELSE CHOOSE k \in after : \A m \in after : k >= m
    IN  SubSeq(sorted, 1, n) \o <<x>> \o SubSeq(sorted, n + 1, Len(sorted))

RECURSIVE SortFrom(_, _)
SortFrom(sorted, rest) ==
    IF rest = <<>> THEN sorted ELSE SortFrom(InsertSorted(sorted, Head(rest)), Tail(rest))

SortChannels(chs) == SortFrom(<<>>, chs)

-----------------------------------------------------------------------------
(* generate_m3u_output                                                     *)

IsRecognized(key) == \E k \in 1..Len(RecognizedKeys) : RecognizedKeys[k] = key

\* the attributes in the order of channel.items()
AttrText(channel) ==
    Concat([k \in 1..Len(channel) |->
              IF IsRecognized(channel[k][1])
              THEN <<" ">> \o ReplaceChar(channel[k][1], "_", "-") \o <<"=", "\"">>
                   \o channel[k][2] \o <<"\"">>
              ELSE <<>>])

ExtinfLine(channel) ==
    ExtinfPrefix \o AttrText(channel) \o <<",">> \o Get(channel, KeyName, UnknownChannel)

\* the text written to the file
GenerateText(chs) ==
    M3UHeader \o
    Concat([k \in 1..Len(chs) |->
              ExtinfLine(chs[k]) \o <<"\n">> \o Get(chs[k], KeyUrl, <<>>) \o <<"\n">>])

-----------------------------------------------------------------------------
(* The configuration of main.  The source leaves the list of "News"        *)
(* unclosed (line 202); it is taken to end after "ABP News".               *)

MainCategoryMap == <<
  << <<"E","n","t","e","r","t","a","i","n","m","e","n","t">>,
     << <<"S","t","a","r"," ","P","l","u","s">>, <<"S","t","a","r"," ","B","h","a","r","a","t">>, <<"S","o","n","y"," ","T","V">>, <<"S","o","n","y"," ","S","A","B">>, <<"C","o","l","o","r","s"," ","T","V">>, <<"Z","e","e"," ","T","V">>,
        <<"Z","e","e"," ","A","n","m","o","l">>, <<"S","o","n","y"," ","P","a","l">>, <<"&"," ","T","V">>, <<"S","t","a","r"," ","U","t","s","a","v">> >> >>,
  << <<"M","o","v","i","e","s">>,
     << <<"S","t","a","r"," ","G","o","l","d">>, <<"S","t","a","r"," ","G","o","l","d"," ","S","e","l","e","c","t">>, <<"Z","e","e"," ","C","i","n","e","m","a">>, <<"Z","e","e"," ","A","c","t","i","o","n">>, <<"Z","e","e"," ","B","o","l","l","y","w","o","o","d">>,
        <<"Z","e","e"," ","C","l","a","s","s","i","c">>, <<"S","o","n","y"," ","M","a","x">>, <<"S","o","n","y"," ","M","a","x"," ","2">>, <<"S","o","n","y"," ","W","a","h">>, <<"C","o","l","o","r","s"," ","C","i","n","e","p","l","e","x">>,
        <<"&"," ","p","i","c","t","u","r","e","s">>, <<"U","T","V"," ","M","o","v","i","e","s">>, <<"U","T","V"," ","A","c","t","i","o","n">>, <<"B","4","U"," ","M","o","v","i","e","s">>, <<"Z","e","e"," ","A","n","m","o","l"," ","C","i","n","e","m","a">> >> >>,
  << <<"K","i","d","s">>,
     << <<"C","a","r","t","o","o","n"," ","N","e","t","w","o","r","k">>, <<"P","o","g","o">>, <<"H","u","n","g","a","m","a"," ","T","V">>, <<"D","i","s","n","e","y"," ","C","h","a","n","n","e","l">>, <<"N","i","c","k">>, <<"N","i","c","k"," ","H","D","+">>,
        <<"D","i","s","c","o","v","e","r","y"," ","K","i","d","s">>, <<"C","h","u","t","t","i"," ","T","V">>, <<"K","i","d","s">>, <<"C","h","i","l","d","r","e","n">>, <<"J","Ã","º","n","i","o","r">>, <<"A","n","i","m","a","t","i","o","n">>,
        <<"T","o","o","n","s">> >> >>,
  << <<"K","n","o","w","l","e","d","g","e"," ","&"," ","D","o","c","u","m","e","n","t","a","r","i","e","s">>,
     << <<"D","i","s","c","o","v","e","r","y"," ","C","h","a","n","n","e","l">>, <<"D","i","s","c","o","v","e","r","y"," ","S","c","i","e","n","c","e">>, <<"N","a","t","i","o","n","a","l"," ","G","e","o","g","r","a","p","h","i","c">>, <<"H","i","s","t","o","r","y"," ","T","V","1","8">>,
        <<"A","n","i","m","a","l"," ","P","l","a","n","e","t">>, <<"K","n","o","w","l","e","d","g","e">> >> >>,
  << <<"S","p","o","r","t","s">>,
     << <<"S","t","a","r"," ","S","p","o","r","t","s">>, <<"S","o","n","y"," ","T","e","n">>, <<"S","o","n","y"," ","S","i","x">>, <<"S","o","n","y"," ","T","e","n"," ","1">>, <<"S","o","n","y"," ","T","e","n"," ","2">>, <<"S","o","n","y"," ","T","e","n"," ","3">>,
        <<"S","o","n","y"," ","T","e","n"," ","4">>, <<"S","p","o","r","t","s","1","8">>, <<"I","P","L">> >> >>,
  << <<"N","e","w","s">>,
     << <<"I","n","d","i","a"," ","N","e","w","s">>, <<"W","o","r","l","d"," ","N","e","w","s">>, <<"B","B","C"," ","N","e","w","s">>, <<"N","D","T","V">>, <<"A","a","j"," ","T","a","k">>, <<"Z","e","e"," ","N","e","w","s">>,
        <<"R","e","p","u","b","l","i","c"," ","T","V">>, <<"A","B","P"," ","N","e","w","s">> >> >> >>

MainBlacklist == <<
  <<"V","O","D">>, <<"S","e","r","i","e","s">>, <<"M","o","v","i","e","s"," ","L","i","b","r","a","r","y">>, <<"M","o","v","i","e"," ","L","i","b","r","a","r","y">>, <<"A","r","c","h","i","v","e","s">>, <<"B","o","x"," ","O","f","f","i","c","e">>,
  <<"R","e","p","l","a","y">>, <<"O","n"," ","D","e","m","a","n","d">>, <<"R","e","c","o","r","d","i","n","g","s">>, <<"R","e","c","o","r","d","e","d">>, <<"C","a","t","c","h","u","p">>, <<"E","P","G">>, <<"S","e","a","s","o","n">>,
  <<"E","p","i","s","o","d","e">> >>

GeneralKeywords == <<
  <<"L","i","v","e">>, <<"H","D">>, <<"T","V">>, <<"C","h","a","n","n","e","l">>, <<"S","t","r","e","a","m">>, <<"2","4","/","7">>, <<"n","e","w","s">>, <<"s","p","o","r","t","s">>,
  <<"e","n","t","e","r","t","a","i","n","m","e","n","t">>, <<"k","i","d","s">>, <<"m","u","s","i","c">> >>

\* desired_keywords: every category keyword and the general ones, lower-cased
DesiredKeywords(cmap) ==
    UNION {{Lower(cmap[c][2][k]) : k \in 1..Len(cmap[c][2])} : c \in 1..Len(cmap)}
    \cup {Lower(GeneralKeywords[k]) : k \in 1..Len(GeneralKeywords)}

-----------------------------------------------------------------------------
(* Inputs.                                                                 *)

\* the longest playlist of raw lines, and of whole entries, that is fetched
MaxLines == 3
MaxEntries == 2

\* the blacklist and category mapping of the end-to-end scenario
ScenarioBlacklist == << <<"V","O","D">> >>
ScenarioCategoryMap == << << <<"S","p","o","r","t","s">>, << <<"S","p","o","r","t","s">> >> >> >>

\* raw lines: metadata lines, a blank and a whitespace-only line, a URL, a comment
RawLines == {
    <<"#","E","X","T","I","N","F",":","-","1",",","A"," ","T","V">>,
    <<" ">> \o <<"#","E","X","T","I","N","F",":","-","1"," ","t","v","g","-","i","d","=","\"","a",",","b","\"",",","Z","e","e"," ","T","V",","," ","H","D">> \o <<" ">>,
    <<"#","E","X","T","I","N","F",":","-","1"," ","x","=","\"","y">>,
    <<>>,
    <<" ", "\t">>,
    <<" ">> \o <<"h","t","t","p",":","/","/","x">> \o <<" ">>,
    <<"#","E","X","T","M","3","U">> }

\* a metadata line and its URL line, as a well-formed source writes them
Entry(attrs, name, url) ==
    ExtinfPrefix \o attrs \o <<",">> \o name \o <<"\n">> \o url \o <<"\n">>

Entries == {
    Entry(<<" ","t","v","g","-","i","d","=","\"","1","\""," ","g","r","o","u","p","-","t","i","t","l","e","=","\"","O","l","d","\"">>, <<"S","t","a","r"," ","S","p","o","r","t","s"," ","H","D">>, <<"h","t","t","p",":","/","/","x","/","1">>),
    Entry(<<" ","g","r","o","u","p","-","t","i","t","l","e","=","\"","O","l","d","\"">>, <<"V","O","D"," ","M","o","v","i","e"," ","C","h","a","n","n","e","l">>, <<"h","t","t","p",":","/","/","x","/","2">>),
    Entry(<<" ","g","r","o","u","p","-","t","i","t","l","e","=","\"","S","e","r","i","e","s","\"">>, <<"Z","e","e"," ","C","i","n","e","m","a">>, <<"h","t","t","p",":","/","/","x","/","3">>),
    Entry(<<" ","g","r","o","u","p","-","t","i","t","l","e","=","\"","S","t","a","r"," ","P","l","u","s","\"">>, <<"X","Y","Z">>, <<"h","t","t","p",":","/","/","x","/","4">>),
    Entry(<<" ","g","r","o","u","p","-","t","i","t","l","e","=","\"","O","l","d","\""," ","t","v","g","-","s","h","i","f","t","=","\"","2","\""," ","t","v","g","-","i","d","=","\"","7","\"">>, <<"S","o","n","y"," ","T","V">>, <<"h","t","t","p",":","/","/","x","/","5">>),
    Entry(<<" ","g","r","o","u","p","-","t","i","t","l","e","=","\"","K","i","d","s","\"">>, <<"Z","e","e"," ","C","i","n","e","m","a"," ","H","D">>, <<"h","t","t","p",":","/","/","x","/","6">>),
    Entry(<<" ","t","v","g","-","l","o","g","o","=","\"","l","\""," ","t","v","g","-","i","d","=","\"","9","\"">>, <<"&"," ","T","V">>, <<"h","t","t","p",":","/","/","x","/","7">>),
    Entry(<<>>, <<"S","t","a","r","t","v","c","h","a","n","n","e","l">>, <<"h","t","t","p",":","/","/","x","/","8">>),
    Entry(<<>>, <<"P","o","g","o">>, <<"h","t","t","p",":","/","/","x","/","9">>) }

SeqsUpTo(S, n) == UNION {[1..m -> S] : m \in 0..n}

\* raw lines, each ended by a line break
RawTexts == {Concat([k \in 1..Len(ls) |-> ls[k] \o <<"\n">>]) : ls \in SeqsUpTo(RawLines, MaxLines)}

\* the header and whole entries
EntryTexts == {M3UHeader \o Concat(es) : es \in SeqsUpTo(Entries, MaxEntries)}

-----------------------------------------------------------------------------
(* main                                                                    *)

Init ==
    /\ pc = "main"
    /\ run = 1
    /\ \/ /\ content \in RawTexts
          /\ category_map = ScenarioCategoryMap
          /\ vod_blacklist_keywords = ScenarioBlacklist
       \/ /\ content \in EntryTexts
          /\ category_map = MainCategoryMap
          /\ vod_blacklist_keywords = MainBlacklist
    /\ source = content
    /\ desired_keywords = DesiredKeywords(category_map)
    /\ lines = <<>>
    /\ i = 0
    /\ channels = <<>>
    /\ j = 0
    /\ filtered_channels = <<>>
    /\ output = <<>>
    /\ prev = <<>>

\* if m3u_content: is false for the empty text; main reports and stops
FetchedNothing ==
    /\ pc = "main"
    /\ content = <<>>
    /\ pc' = "failed"
    /\ UNCHANGED <<run, source, content, lines, i, channels, j, filtered_channels,
                   output, prev, category_map, vod_blacklist_keywords, desired_keywords>>

\* if m3u_content: parse_m3u is entered and the text is split
ParseBegin ==
    /\ pc = "main"
    /\ content # <<>>
    /\ pc' = "parse"
    /\ lines' = SplitLines(content)
    /\ i' = 0
    /\ channels' = <<>>
    /\ UNCHANGED <<run, source, content, j, filtered_channels, output, prev,
                   category_map, vod_blacklist_keywords, desired_keywords>>

\* a line that is not a metadata line
ParseOtherLine ==
    /\ pc = "parse"
    /\ i < Len(lines)
    /\ ~IsExtinf(i)
    /\ i' = i + 1
    /\ UNCHANGED <<pc, run, source, content, lines, channels, j, filtered_channels,
                   output, prev, category_map, vod_blacklist_keywords, desired_keywords>>

\* a metadata line followed by a URL line
ParseEntry ==
    /\ pc = "parse"
    /\ i < Len(lines)
    /\ IsExtinf(i)
    /\ HasUrlLine(lines, i)
    /\ channels' = Append(channels,
                          Put(ChannelInfo(Strip(LineAt(i))), KeyUrl, Strip(LineAt(i + 1))))
    /\ i' = i + 2
    /\ UNCHANGED <<pc, run, source, content, lines, j, filtered_channels, output, prev,
                   category_map, vod_blacklist_keywords, desired_keywords>>

\* a metadata line without a URL line: the entry is skipped
ParseMissingUrl ==
    /\ pc = "parse"
    /\ i < Len(lines)
    /\ IsExtinf(i)
    /\ ~HasUrlLine(lines, i)
    /\ i' = AfterMissingUrl(i)
    /\ UNCHANGED <<pc, run, source, content, lines, channels, j, filtered_channels,
                   output, prev, category_map, vod_blacklist_keywords, desired_keywords>>

\* parse_m3u returns and the filter is entered
ParseReturn ==
    /\ pc = "parse"
    /\ i >= Len(lines)
    /\ pc' = "filter"
    /\ j' = 0
    /\ filtered_channels' = <<>>
    /\ UNCHANGED <<run, source, content, lines, i, channels, output, prev,
                   category_map, vod_blacklist_keywords, desired_keywords>>

\* the channel matches the blacklist: continue
FilterVod ==
    /\ pc = "filter"
    /\ j < Len(channels)
    /\ IsVod(channels[j + 1], vod_blacklist_keywords)
    /\ j' = j + 1
    /\ UNCHANGED <<pc, run, source, content, lines, i, channels, filtered_channels,
                   output, prev, category_map, vod_blacklist_keywords, desired_keywords>>

\* the channel matches no desired keyword: continue
FilterNotDesired ==
    /\ pc = "filter"
    /\ j < Len(channels)
    /\ ~IsVod(channels[j + 1], vod_blacklist_keywords)
    /\ ~IsDesiredLiveTv(channels[j + 1], desired_keywords)
    /\ j' = j + 1
    /\ UNCHANGED <<pc, run, source, content, lines, i, channels, filtered_channels,
                   output, prev, category_map, vod_blacklist_keywords, desired_keywords>>

\* the channel is kept: its group_title is overwritten in place
FilterRetain ==
    /\ pc = "filter"
    /\ j < Len(channels)
    /\ ~IsVod(channels[j + 1], vod_blacklist_keywords)
    /\ IsDesiredLiveTv(channels[j + 1], desired_keywords)
    /\ LET channel == Put(channels[j + 1], KeyGroupTitle,
                          AssignedCategory(channels[j + 1], category_map))
       IN  /\ channels' = [channels EXCEPT ![j + 1] = channel]
           /\ filtered_channels' = Append(filtered_channels, channel)
    /\ j' = j + 1
    /\ UNCHANGED <<pc, run, source, content, lines, i, output, prev,
                   category_map, vod_blacklist_keywords, desired_keywords>>

\* the filter returns
FilterReturn ==
    /\ pc = "filter"
    /\ j >= Len(channels)
    /\ pc' = "sort"
    /\ UNCHANGED <<run, source, content, lines, i, channels, j, filtered_channels,
                   output, prev, category_map, vod_blacklist_keywords, desired_keywords>>

\* filtered_and_categorized_channels.sort(key=...)
Sort ==
    /\ pc = "sort"
    /\ filtered_channels' = SortChannels(filtered_channels)
    /\ pc' = "generate"
    /\ UNCHANGED <<run, source, content, lines, i, channels, j, output, prev,
                   category_map, vod_blacklist_keywords, desired_keywords>>

\* generate_m3u_output writes the file
Generate ==
    /\ pc = "generate"
    /\ output' = GenerateText(filtered_channels)
    /\ pc' = "written"
    /\ UNCHANGED <<run, source, content, lines, i, channels, j, filtered_channels, prev,
                   category_map, vod_blacklist_keywords, desired_keywords>>

\* main is run again, with the same configuration, on the file it wrote
Rerun ==
    /\ pc = "written"
    /\ run = 1
    /\ run' = 2
    /\ content' = output
    /\ prev' = filtered_channels
    /\ pc' = "main"
    /\ UNCHANGED <<source, lines, i, channels, j, filtered_channels, output,
                   category_map, vod_blacklist_keywords, desired_keywords>>

Next ==
    \/ FetchedNothing
    \/ ParseBegin
    \/ ParseOtherLine
    \/ ParseEntry
    \/ ParseMissingUrl
    \/ ParseReturn
    \/ FilterVod
    \/ FilterNotDesired
    \/ FilterRetain
    \/ FilterReturn
    \/ Sort
    \/ Generate
    \/ Rerun

Spec == Init /\ [][Next]_vars

-----------------------------------------------------------------------------
(* Vocabulary of the properties.                                           *)

NameOf(channel) == Get(channel, KeyName, <<>>)
UrlOf(channel) == Get(channel, KeyUrl, <<>>)
GroupOf(channel) == Get(channel, KeyGroupTitle, <<>>)

\* keyword occurs in text, ignoring case, with no word character next to
\* the occurrence on either side
WholeWordOccurs(keyword, text) ==
    \E p \in 0..(Len(text) - Len(keyword)) :
        /\ \A t \in 1..Len(keyword) : LowerChar[text[p + t]] = LowerChar[keyword[t]]
        /\ p = 0 \/ ~IsWord(text[p])
        /\ p + Len(keyword) = Len(text) \/ ~IsWord(text[p + Len(keyword) + 1])

WholeWordPresent(keyword, channel) ==
    WholeWordOccurs(keyword, NameOf(channel)) \/ WholeWordOccurs(keyword, GroupOf(channel))

\* every keyword of the configuration
AllKeywords ==
    {vod_blacklist_keywords[k] : k \in 1..Len(vod_blacklist_keywords)}
    \cup desired_keywords
    \cup UNION {{category_map[c][2][k] : k \in 1..Len(category_map[c][2])} :
                  c \in 1..Len(category_map)}

\* a keyword of category c is found in the channel by the engine's test
CategoryFound(c, channel) ==
    \E k \in 1..Len(category_map[c][2]) :
        KeywordFound(Lower(category_map[c][2][k]), channel)

\* the 1-based indexes of the metadata lines that have a URL line after them
EmittingLines(ls) ==
    {k \in 1..Len(ls) :
        /\ StartsWith(Strip(ls[k]), EXTINF)
        /\ k < Len(ls)
        /\ ~StartsWith(Strip(ls[k + 1]), <<"#">>)}

\* the m-th of them in source order
NthEmitting(ls, m) ==
    CHOOSE k \in EmittingLines(ls) :
        Cardinality({n \in EmittingLines(ls) : n < k}) = m - 1

\* the text after the last comma, or the sentinel when there is no comma
LastCommaName(line) ==
    LET cs == {c \in 1..Len(line) : line[c] = ","}
    IN  IF cs = {} THEN UnknownChannel
        ELSE Strip(SubSeq(line, 1 + (CHOOSE c \in cs : \A m \in cs : c >= m), Len(line)))

\* lexicographic order on strings by code point
LexLess(s, t) ==
    \E n \in 0..(IF Len(s) < Len(t) THEN Len(s) ELSE Len(t)) :
        /\ \A m \in 1..n : s[m] = t[m]
        /\ \/ n = Len(s) /\ n < Len(t)
           \/ n < Len(s) /\ n < Len(t) /\ Ord[s[n + 1]] < Ord[t[n + 1]]

\* ascending by group-title, then by name
InOrder(a, b) ==
    \/ LexLess(GroupOf(a), GroupOf(b))
    \/ GroupOf(a) = GroupOf(b) /\ (NameOf(a) = NameOf(b) \/ LexLess(NameOf(a), NameOf(b)))

Count(chs, x) == Cardinality({k \in 1..Len(chs) : chs[k] = x})

\* the seven well-known attributes, in the canonical order, as stored and as written
WellKnownKeys == << <<"t","v","g","_","i","d">>, <<"t","v","g","_","n","a","m","e">>, <<"t","v","g","_","l","o","g","o">>, <<"g","r","o","u","p","_","t","i","t","l","e">>, <<"t","v","g","_","u","r","l">>, <<"t","v","g","_","r","e","c">>, <<"t","v","g","_","s","h","i","f","t">> >>

CanonicalAttrText(channel) ==
    Concat([k \in 1..Len(WellKnownKeys) |->
              IF Has(channel, WellKnownKeys[k])
              THEN <<" ">> \o ReplaceChar(WellKnownKeys[k], "_", "-") \o <<"=", "\"">>
                   \o Get(channel, WellKnownKeys[k], <<>>) \o <<"\"">>
              ELSE <<>>])

CanonicalText(chs) ==
    M3UHeader \o
    Concat([k \in 1..Len(chs) |->
              ExtinfPrefix \o CanonicalAttrText(chs[k]) \o <<",">> \o NameOf(chs[k])
              \o <<"\n">> \o UrlOf(chs[k]) \o <<"\n">>])

\* the header and one entry with quoted attributes, a name and a URL
WellFormedSingleEntry(text) == \E e \in Entries : text = M3UHeader \o e

Labels(chs) == [k \in 1..Len(chs) |-> <<NameOf(chs[k]), UrlOf(chs[k]), GroupOf(chs[k])>>]

\* no group-title written matches a keyword of a category other than its own
NoCrossCategoryMatch(chs) ==
    \A k \in 1..Len(chs) : \A c \in 1..Len(category_map) :
        category_map[c][1] # GroupOf(chs[k]) =>
            \A n \in 1..Len(category_map[c][2]) :
                /\ ~WholeWordOccurs(category_map[c][2][n], GroupOf(chs[k]))
                /\ ~Search(Lower(category_map[c][2][n]), Lower(GroupOf(chs[k])))

-----------------------------------------------------------------------------
(* Properties.                                                             *)

\* C1: a channel in whose name or original group-title a blacklist keyword is
\* present (by the engine's test, or as a whole word) is not appended to the
\* returned list, also when a category or desired keyword is present in it.
C1_BlacklistPrecedence ==
    [][(/\ pc = "filter"
        /\ j < Len(channels)
        /\ \E k \in 1..Len(vod_blacklist_keywords) :
              \/ KeywordFound(Lower(vod_blacklist_keywords[k]), channels[j + 1])
              \/ WholeWordPresent(vod_blacklist_keywords[k], channels[j + 1]))
       => filtered_channels' = filtered_channels]_vars

\* a visited channel with a blacklist, a category and a desired keyword was dropped
C1_Witness ==
    /\ pc = "filter"
    /\ j >= 1
    /\ \E k \in 1..Len(vod_blacklist_keywords) :
          WholeWordPresent(vod_blacklist_keywords[k], channels[j])
    /\ \E c \in 1..Len(category_map) : CategoryFound(c, channels[j])
    /\ \E kw \in desired_keywords : KeywordFound(kw, channels[j])
    /\ \A k \in 1..Len(filtered_channels) : filtered_channels[k] # channels[j]

\* C2: a retained channel in which a category keyword is found gets, as its
\* group-title, the name of the first category of the mapping with a keyword
\* found in its name or original group-title, never that of a later one.
C2_FirstCategoryWins ==
    [][(/\ pc = "filter"
        /\ j < Len(channels)
        /\ Len(filtered_channels') = Len(filtered_channels) + 1
        /\ \E c \in 1..Len(category_map) : CategoryFound(c, channels[j + 1]))
       => \E c \in 1..Len(category_map) :
             /\ CategoryFound(c, channels[j + 1])
             /\ \A d \in 1..(c - 1) : ~CategoryFound(d, channels[j + 1])
             /\ GroupOf(filtered_channels'[Len(filtered_channels')]) = category_map[c][1]
             /\ GroupOf(channels'[j + 1]) = category_map[c][1]]_vars

\* the channel named "Zee Cinema HD" of group "Kids" (keywords of Movies and
\* of Kids) was retained and labelled Movies
C2_Witness ==
    /\ pc = "filter"
    /\ run = 1
    /\ j >= 1
    /\ filtered_channels # <<>>
    /\ filtered_channels[Len(filtered_channels)] = channels[j]
    /\ NameOf(channels[j]) = <<"Z","e","e"," ","C","i","n","e","m","a"," ","H","D">>
    /\ GroupOf(channels[j]) = <<"M","o","v","i","e","s">>
    /\ \E k \in 1..Len(lines) : GroupOf(ChannelInfo(Strip(lines[k]))) = <<"K","i","d","s">>
                                 /\ NameOf(ChannelInfo(Strip(lines[k]))) = <<"Z","e","e"," ","C","i","n","e","m","a"," ","H","D">>

\* C3: every keyword of the configuration is found in a channel exactly when
\* it occurs in the name or the group-title, ignoring case, as a whole word;
\* "TV" is found in "Star TV" and not in "Startvchannel".
C3_WholeWordMatch ==
    /\ Search(Lower(<<"T","V">>), Lower(<<"S","t","a","r"," ","T","V">>))
    /\ ~Search(Lower(<<"T","V">>), Lower(<<"S","t","a","r","t","v","c","h","a","n","n","e","l">>))
    /\ (pc = "filter" /\ j < Len(channels)) =>
          \A kw \in AllKeywords :
              KeywordFound(Lower(kw), channels[j + 1]) <=> WholeWordPresent(kw, channels[j + 1])

\* C4: every record parse_m3u has appended has a non-empty url.
C4_NonEmptyUrl ==
    pc \in {"parse", "filter"} /\ j = 0 =>
        \A k \in 1..Len(channels) : UrlOf(channels[k]) # <<>>

\* C5: parse_m3u returns exactly one record for each metadata line whose next
\* line exists and does not start with # after trimming, in source order, each
\* built from that line and the line after it, and no other record.
C5_OneRecordPerEntry ==
    (pc = "filter" /\ j = 0) =>
        /\ lines = SplitLines(content)
        /\ Len(channels) = Cardinality(EmittingLines(lines))
        /\ \A m \in 1..Len(channels) :
              LET k == NthEmitting(lines, m)
              IN  /\ UrlOf(channels[m]) = Strip(lines[k + 1])
                  /\ channels[m] = Put(ChannelInfo(Strip(lines[k])), KeyUrl, Strip(lines[k + 1]))

\* a metadata line right after a metadata line: the first gave no record, the
\* second was parsed with the URL line after it
C5_Witness ==
    /\ pc = "filter"
    /\ j = 0
    /\ Len(channels) = 1
    /\ \E k \in 1..(Len(lines) - 2) :
          /\ StartsWith(Strip(lines[k]), EXTINF)
          /\ StartsWith(Strip(lines[k + 1]), EXTINF)
          /\ UrlOf(channels[1]) = Strip(lines[k + 2])
          /\ UrlOf(channels[1]) # <<>>

\* C6: a well-formed single entry that is retained, written and parsed again
\* gives one record with the same name, url and well-known attributes.
C6_RoundTrip ==
    (/\ run = 2
     /\ pc = "filter"
     /\ j = 0
     /\ WellFormedSingleEntry(source)
     /\ Len(prev) = 1)
    => /\ Len(channels) = 1
       /\ NameOf(channels[1]) = NameOf(prev[1])
       /\ UrlOf(channels[1]) = UrlOf(prev[1])
       /\ \A k \in 1..Len(WellKnownKeys) :
             Has(prev[1], WellKnownKeys[k]) =>
                /\ Has(channels[1], WellKnownKeys[k])
                /\ Get(channels[1], WellKnownKeys[k], <<>>) = Get(prev[1], WellKnownKeys[k], <<>>)

\* C7: the second run, on the text the first wrote, hands the serializer the
\* same records with the same group-titles in the same order, when no written
\* group-title matches a keyword of another category.
C7_RerunIsNoOp ==
    (run = 2 /\ pc = "generate" /\ NoCrossCategoryMatch(prev))
    => Labels(filtered_channels) = Labels(prev)

\* C8: the sort leaves the list ascending by group-title and then by name,
\* and only permutes it.
C8_SortedPermutation ==
    [][pc = "sort" =>
         /\ \A a \in 1..Len(filtered_channels'), b \in 1..Len(filtered_channels') :
               a < b => InOrder(filtered_channels'[a], filtered_channels'[b])
         /\ Len(filtered_channels') = Len(filtered_channels)
         /\ \A k \in 1..Len(filtered_channels) :
               Count(filtered_channels', filtered_channels[k])
                  = Count(filtered_channels, filtered_channels[k])]_vars

\* a channel labelled Kids, retained after one labelled Movies, is handed to
\* the serializer before it
C8_Witness ==
    /\ pc = "generate"
    /\ Len(filtered_channels) = 2
    /\ GroupOf(filtered_channels[1]) = <<"K","i","d","s">>
    /\ GroupOf(filtered_channels[2]) = <<"M","o","v","i","e","s">>
    /\ channels = <<filtered_channels[2], filtered_channels[1]>>

\* C9: the text written lists, for every record, those of the seven well-known
\* attributes it has, in the canonical order.
C9_CanonicalAttributeOrder ==
    pc = "written" => output = CanonicalText(filtered_channels)

\* C10: the name stored for a metadata line is the trimmed text after its last
\* comma, and the sentinel only when the line has no comma.
C10_NameAfterLastComma ==
    (pc = "filter" /\ j = 0) =>
        \A m \in 1..Len(channels) :
            NameOf(channels[m]) = LastCommaName(Strip(lines[NthEmitting(lines, m)]))

=============================================================================
